---- MODULE Spec2Model ----
(***************************************************************************)
(* pynsot: the command-line client (app.py, callbacks.py) and the         *)
(* resource objects of the library (models.py).                            *)
(*                                                                         *)
(* 1. Reconciliation of command-line attribute edits with the attributes   *)
(*    of an existing object (App.process_attributes), specification Spec.  *)
(*    An attribute mapping is a Python dict from attribute names to either *)
(*    a string or a list of strings.  It is modelled as a function from    *)
(*    Keys to tagged values; a key that is not in the dict maps to Absent. *)
(*                                                                         *)
(* 2. Site scoping and natural-key resolution of one command invocation    *)
(*    (process_site_id, App.rebase, App.get_single_object, App.update,     *)
(*    App.list, list_subcommand), specification SpecApp.  The server is    *)
(*    the environment: every response is chosen from the shapes a server   *)
(*    can send.  Specification SpecUpdate is the update operation alone,   *)
(*    with fetched attributes and edits of every kind.                     *)
(*                                                                         *)
(* 3. The cache of the upstream state of a Resource (models.py:            *)
(*    existing_resource, exists, ensure, purge, item assignment and        *)
(*    deletion), specification SpecResource.  Every call is one step.      *)
(***************************************************************************)
EXTENDS Integers, Sequences, FiniteSets, TLC

VARIABLES
    attrs,          \* the mapping handed to process_attributes (payload['attributes'])
    edits,          \* ctx._attributes: the (key, val) pairs of the invocation
    action,         \* attr_action: "add", "replace" or "delete"
    multi,          \* the --multi flag
    pc,             \* position of the invocation
    ret,            \* outcome of process_attributes: mapping, multi_replaced, exception
    op,             \* the operation of the invocation: "add", "update", "remove",
                    \* "set_query", "list", "sublist"
    entry,          \* "cli": through a click command; "api": the App method called directly
    resource_name,  \* App.resource_name
    data,           \* the parameters of the invocation (a dict)
    default_site,   \* api.default_site
    auth_method,    \* auth_method of the client settings
    api_created,    \* App._api is not None
    site_id,        \* App.site_id
    rebase_done,    \* App.rebase_done
    base_url,       \* the segments appended to api._store['base_url']
    http,           \* the requests sent so far, in order
    outcome,        \* how the invocation ended, "running" until then
    obj,            \* what the last object lookup of the invocation gave
    obj_id,         \* the id the operation addresses (obj_id, parent_resource_id)
    payload,        \* what the mutating request of the invocation sent
    answer,         \* what the server answered to the last GET
    rdata,          \* the last direct rebase call: the site_id of its dict as
                    \* given, and after the call
    rebase_calls,   \* number of direct rebase calls so far
    rtype,          \* Resource.resource_name
    rpayload,       \* Resource._payload without its attributes
    cached,         \* Resource._existing_resource
    last_error,     \* Resource.last_error
    call            \* the latest call on the Resource: what it was given, the
                    \* cache it found, the requests it sent, what it appended to
                    \* Resource.errors and what it returned

attrvars == <<attrs, edits, action, multi, ret>>

appvars == <<op, entry, resource_name, data, default_site, auth_method,
             api_created, site_id, rebase_done, base_url, http, outcome, obj,
             obj_id, payload, answer, rdata, rebase_calls>>

resvars == <<rtype, rpayload, cached, last_error, call>>

vars == <<attrvars, appvars, resvars, pc>>

----------------------------------------------------------------------------
(* Bounds of the model *)

\* longest list of edits of one invocation
MaxEdits == 2

\* largest number of values (strings and list elements) in the fetched mapping
MaxItems == 2

Keys == {"owner", "tags"}

\* values of the edits; "" is the value of an edit given without "=value"
\* (callbacks.py:93)
Vals == {"", "a", "b"}

\* values the fetched mapping holds: some that the edits name, one that no
\* edit names
StoredVals == {"", "a", "z"}

Actions == {"add", "replace", "delete"}

----------------------------------------------------------------------------
(* Python values *)

Absent == [kind |-> "absent", s |-> "", items |-> <<>>]

Str(v) == [kind |-> "str", s |-> v, items |-> <<>>]

List(l) == [kind |-> "list", s |-> "", items |-> l]

SeqsUpTo(S, n) == UNION {[1..m -> S] : m \in 0..n}

\* x in l, for a list l
InList(x, l) == \E i \in 1..Len(l) : l[i] = x

\* x in s, for strings x and s of at most one character: substring test
InStr(x, s) == x = "" \/ x = s

\* l.remove(x): drops the first occurrence of x (x is in l)
ListRemove(l, x) ==
    LET i == CHOOSE j \in 1..Len(l) : l[j] = x /\ \A h \in 1..(j - 1) : l[h] # x
    IN  [j \in 1..(Len(l) - 1) |-> IF j < i THEN l[j] ELSE l[j + 1]]

\* truth value of a Python object: empty strings and empty lists are false
Truthy(x) == IF x.kind = "list" THEN x.items # <<>> ELSE x.s # ""

Weight(x) == IF x.kind = "list" THEN Len(x.items)
             ELSE IF x.kind = "str" THEN 1 ELSE 0

RECURSIVE SumWeight(_, _)
SumWeight(m, ks) ==
    IF ks = {} THEN 0
    ELSE LET k == CHOOSE x \in ks : TRUE
         IN  Weight(m[k]) + SumWeight(m, ks \ {k})

PyValues == {Absent} \cup {Str(v) : v \in StoredVals}
                     \cup {List(l) : l \in SeqsUpTo(StoredVals, MaxItems)}

\* the attribute mappings an object can have upstream
AttrSets == {m \in [Keys -> PyValues] : SumWeight(m, Keys) <= MaxItems}

EditLists == SeqsUpTo(Keys \X Vals, MaxEdits)

----------------------------------------------------------------------------
(* App.process_attributes.  The loop state is the mapping, the            *)
(* multi_replaced flag and the exception raised so far ("none" if none).  *)

State(a, r, e) == [attrs |-> a, multi_replaced |-> r, exc |-> e]

Raise(st, e) == [st EXCEPT !.exc = e]

\* MultiAdd without the membership test of line 714
MultiAdd_AlwaysAppend(st, key, val) ==
    LET cur == st.attrs[key] IN
    IF cur.kind = "absent"
    THEN [st EXCEPT !.attrs[key] = List(<<val>>)]
    ELSE IF cur.kind = "list"
    THEN [st EXCEPT !.attrs[key] = List(Append(cur.items, val))]
    ELSE Raise(st, "AttributeError")

\* MultiAdd that puts a new value in front of the list
MultiAdd_Prepend(st, key, val) ==
    LET cur == st.attrs[key] IN
    IF cur.kind = "absent"
    THEN [st EXCEPT !.attrs[key] = List(<<val>>)]
    ELSE IF cur.kind = "list"
    THEN IF ~InList(val, cur.items)
         THEN [st EXCEPT !.attrs[key] = List(<<val>> \o cur.items)]
         ELSE st
    ELSE IF ~InStr(val, cur.s)
         THEN Raise(st, "AttributeError")
         ELSE st

\* app.py:710-715
MultiAdd(st, key, val) ==
    LET cur == st.attrs[key] IN
    IF cur.kind = "absent"
    THEN [st EXCEPT !.attrs[key] = List(<<val>>)]
    ELSE IF cur.kind = "list"
    THEN IF ~InList(val, cur.items)
         THEN [st EXCEPT !.attrs[key] = List(Append(cur.items, val))]
         ELSE st
    ELSE IF ~InStr(val, cur.s)
         THEN Raise(st, "AttributeError")     \* str has no append
         ELSE st

\* app.py:722-723, with the mapping and flag as left by lines 718-720
MultiReplaceAppend(st, key, val) ==
    LET cur == st.attrs[key] IN
    IF cur.kind = "absent"
    THEN Raise(st, "KeyError")
    ELSE IF cur.kind = "list"
    THEN IF ~InList(val, cur.items)
         THEN [st EXCEPT !.attrs[key] = List(Append(cur.items, val))]
         ELSE st
    ELSE IF ~InStr(val, cur.s)
         THEN Raise(st, "AttributeError")
         ELSE st

\* MultiReplaceReset without the multi_replaced test: resets on every edit
MultiReplaceReset_EveryEdit(st, key) ==
    IF st.attrs[key].kind # "absent"
    THEN [st EXCEPT !.attrs[key] = List(<<>>), !.multi_replaced = TRUE]
    ELSE st

\* app.py:718-720
MultiReplaceReset(st, key) ==
    IF st.attrs[key].kind # "absent" /\ ~st.multi_replaced
    THEN [st EXCEPT !.attrs[key] = List(<<>>), !.multi_replaced = TRUE]
    ELSE st

\* app.py:716-723
MultiReplace(st, key, val) ==
    MultiReplaceAppend(MultiReplaceReset(st, key), key, val)

\* MultiDeletePop without the empty-list test: pops only when no value is given
MultiDeletePop_KeepEmpty(st, key, val) ==
    IF val = ""
    THEN [st EXCEPT !.attrs[key] = Absent]
    ELSE st

\* MultiDeletePop that pops whenever the list is touched
MultiDeletePop_Always(st, key, val) == [st EXCEPT !.attrs[key] = Absent]

\* app.py:732-733, with the mapping as left by lines 727-728
MultiDeletePop(st, key, val) ==
    IF val = "" \/ ~Truthy(st.attrs[key])
    THEN [st EXCEPT !.attrs[key] = Absent]
    ELSE st

\* app.py:724-733
MultiDelete(st, key, val) ==
    LET cur == st.attrs[key] IN
    IF cur.kind = "absent"
    THEN Raise(st, "KeyError")
    ELSE IF cur.kind = "list"
    THEN IF InList(val, cur.items)
         THEN MultiDeletePop(
                [st EXCEPT !.attrs[key] = List(ListRemove(cur.items, val))],
                key, val)
         ELSE MultiDeletePop(st, key, val)
    ELSE IF InStr(val, cur.s)
         THEN Raise(st, "AttributeError")     \* str has no remove
         ELSE MultiDeletePop(st, key, val)

\* SingleSet as dict.setdefault: keeps a value that is already there
SingleSet_KeepOld(st, key, val) ==
    IF st.attrs[key].kind = "absent"
    THEN [st EXCEPT !.attrs[key] = Str(val)]
    ELSE st

\* SingleSet that builds a mapping of the edited key alone
SingleSet_Diff(st, key, val) ==
    [st EXCEPT !.attrs = [k \in Keys |-> IF k = key THEN Str(val) ELSE Absent]]

\* app.py:737-741
SingleSet(st, key, val) == [st EXCEPT !.attrs[key] = Str(val)]

\* SingleDelete as attrs.pop(key), without the default: KeyError when absent
SingleDelete_NoDefault(st, key) ==
    IF st.attrs[key].kind = "absent"
    THEN Raise(st, "KeyError")
    ELSE [st EXCEPT !.attrs[key] = Absent]

\* app.py:742-744
SingleDelete(st, key) == [st EXCEPT !.attrs[key] = Absent]

\* app.py:707-744: the body of the loop for one (key, val)
ApplyEdit(st, key, val, act, mul) ==
    IF mul
    THEN CASE act = "add" -> MultiAdd(st, key, val)
           [] act = "replace" -> MultiReplace(st, key, val)
           [] act = "delete" -> MultiDelete(st, key, val)
           [] OTHER -> st
    ELSE CASE act \in {"add", "replace"} -> SingleSet(st, key, val)
           [] act = "delete" -> SingleDelete(st, key)
           [] OTHER -> st

\* app.py:706-747: the loop over ctx._attributes from position i on; an
\* exception ends it
RECURSIVE Loop(_, _, _, _, _)
Loop(st, es, i, act, mul) ==
    IF i > Len(es) \/ st.exc # "none"
    THEN st
    ELSE Loop(ApplyEdit(st, es[i][1], es[i][2], act, mul), es, i + 1, act, mul)

process_attributes(a, es, act, mul) ==
    Loop(State(a, FALSE, "none"), es, 1, act, mul)

----------------------------------------------------------------------------
(* Values of the second part.  Every value is a string, so that any two   *)
(* of them can be compared.                                                *)

\* Python's None
NoneV == "None"

\* a key that the dict does not hold (never set, or popped)
Missing == "absent"

\* a lookup result: nothing was looked up yet (kind "unset"), None, an
\* object of a result list, the raw response, or an exception
NoObject == [id |-> Missing]
NoResponse == [has_count |-> FALSE, count |-> 0, envelope |-> "none", objs |-> <<>>]
Lookup(k, o, r, e) == [kind |-> k, obj |-> o, resp |-> r, exc |-> e]
Unset == Lookup("unset", NoObject, NoResponse, "none")

\* no request body was sent
NoPayload == [fields |-> [k \in {} |-> NoneV], attributes |-> [k \in {} |-> NoneV]]

\* app.py:105-118: the state of an App after construction, with no
\* invocation under way
AppIdle ==
    /\ op = "none"
    /\ entry = "api"
    /\ resource_name = "devices"
    /\ data = [site_id |-> Missing, id |-> Missing, f |-> <<>>]
    /\ default_site = NoneV
    /\ auth_method = "auth_token"
    /\ api_created = FALSE
    /\ site_id = NoneV
    /\ rebase_done = FALSE
    /\ base_url = <<>>
    /\ http = <<>>
    /\ outcome = "running"
    /\ obj = Unset
    /\ obj_id = NoneV
    /\ payload = NoPayload
    /\ answer = NoResponse
    /\ rdata = [given |-> Missing, site_id |-> Missing]
    /\ rebase_calls = 0

\* the latest call of a Resource on which nothing was called yet
NoCall ==
    [name |-> "init", key |-> NoneV, had |-> NoObject, result |-> NoneV,
     requests |-> <<>>, answer |-> NoResponse, write |-> "none", errors |-> <<>>]

\* models.py:105-150: a Resource after construction
ResourceIdle ==
    /\ rtype = "networks"
    /\ rpayload = [site_id |-> "s1", name |-> "x"]
    /\ cached = NoObject
    /\ last_error = NoneV
    /\ call = NoCall

----------------------------------------------------------------------------
(* The invocation: the inputs are drawn at Init, the call is one step. *)

Init ==
    /\ attrs \in AttrSets
    /\ edits \in EditLists
    /\ action \in Actions
    /\ multi \in BOOLEAN
    /\ pc = "call"
    /\ ret = State(attrs, FALSE, "none")
    /\ AppIdle
    /\ ResourceIdle

ProcessAttributes ==
    /\ pc = "call"
    /\ ret' = process_attributes(attrs, edits, action, multi)
    /\ pc' = "done"
    /\ UNCHANGED <<attrs, edits, action, multi>>
    /\ UNCHANGED appvars
    /\ UNCHANGED resvars

Next == ProcessAttributes

Spec == Init /\ [][Next]_vars

----------------------------------------------------------------------------
(* Vocabulary of the properties *)

Done == pc = "done"

EditKeys == {edits[i][1] : i \in 1..Len(edits)}

\* the values the edits give for key k, in edit order
ValuesFor(k) ==
    LET sel == SelectSeq(edits, LAMBDA e : e[1] = k)
    IN  [i \in 1..Len(sel) |-> sel[i][2]]

\* number of occurrences of v in l
Count(v, l) == Cardinality({i \in 1..Len(l) : l[i] = v})

\* l without its repeated elements, first occurrences kept in place
RECURSIVE Dedup(_)
Dedup(l) ==
    IF l = <<>> THEN <<>>
    ELSE LET front == SubSeq(l, 1, Len(l) - 1)
             last == l[Len(l)]
         IN  IF \E i \in 1..Len(front) : front[i] = last
             THEN Dedup(front)
             ELSE Append(Dedup(front), last)

\* l without the element at position i
DropAt(l, i) == [j \in 1..(Len(l) - 1) |-> IF j < i THEN l[j] ELSE l[j + 1]]

\* the last edit of the call and the loop state it finds: the outcome of the
\* edits before it
LastKey == edits[Len(edits)][1]
LastVal == edits[Len(edits)][2]
Before == process_attributes(attrs, SubSeq(edits, 1, Len(edits) - 1), action, multi)

\* no edit names a key whose fetched value is a string
NoStrEdited == \A k \in EditKeys : attrs[k].kind # "str"

\* every edit names a key whose fetched value is a list
AllListsEdited == \A k \in EditKeys : attrs[k].kind = "list"

----------------------------------------------------------------------------
(* C1: multi replace resets the list of every edited key.  When all the    *)
(* edited keys hold lists, the call returns and every edited key holds     *)
(* only values supplied in this call.                                      *)
C1_ReplaceResetsEachKey ==
    (Done /\ multi /\ action = "replace" /\ edits # <<>> /\ AllListsEdited)
        => /\ ret.exc = "none"
           /\ \A k \in EditKeys :
                /\ ret.attrs[k].kind = "list"
                /\ \A j \in 1..Len(ret.attrs[k].items) :
                     InList(ret.attrs[k].items[j], ValuesFor(k))

(* C2: process_attributes is total.  For a non-empty edit list, any action *)
(* and either value of multi (list-typed edits naming only keys that hold  *)
(* a list or are absent), the call returns without an exception.           *)
C2_Total ==
    (Done /\ edits # <<>> /\ (multi => NoStrEdited)) => ret.exc = "none"

C4_ScalarAddEqualsReplace ==
    (Done /\ ~multi /\ action \in {"add", "replace"})
        => /\ ret.exc = "none"
           /\ \A other \in {"add", "replace"} :
                ret.attrs = process_attributes(attrs, edits, other, FALSE).attrs
           /\ edits # <<>>
                => ret.attrs = [Before.attrs EXCEPT ![LastKey] = Str(LastVal)]

C4_Witness ==
    /\ Done /\ ~multi /\ action = "add"
    /\ attrs["owner"] = Str("a")
    /\ edits = << <<"owner", "b">> >>
    /\ ret.attrs = [attrs EXCEPT !["owner"] = Str("b")]

(* C5: multi add never repeats a value.  A value added to a key whose list *)
(* held it at most once is in the resulting list exactly once, also when   *)
(* the call names it twice, and an add of a value the list already holds   *)
(* changes nothing.                                                        *)
C5_ListAddIdempotent ==
    (Done /\ multi /\ action = "add" /\ NoStrEdited)
        => /\ ret.exc = "none"
           /\ \A i \in 1..Len(edits) :
                Count(edits[i][2], attrs[edits[i][1]].items) <= 1
                    => /\ ret.attrs[edits[i][1]].kind = "list"
                       /\ Count(edits[i][2], ret.attrs[edits[i][1]].items) = 1
           /\ (edits # <<>> /\ InList(LastVal, Before.attrs[LastKey].items))
                => ret.attrs = Before.attrs

C5_Witness ==
    /\ Done /\ multi /\ action = "add"
    /\ attrs["tags"] = List(<<"a">>)
    /\ edits = << <<"tags", "b">>, <<"tags", "b">> >>
    /\ ret.attrs["tags"] = List(<<"a", "b">>)

(* C6: multi add to a key that is absent makes a one-element list, and a   *)
(* new value for a key that holds a list is appended at its end; a key     *)
(* absent from the fetched mapping ends with the values added in this      *)
(* call, in edit order.                                                    *)
C6_ListAddAppends ==
    (Done /\ multi /\ action = "add" /\ edits # <<>> /\ NoStrEdited)
        => /\ ret.exc = "none"
           /\ Before.attrs[LastKey].kind = "absent"
                => ret.attrs = [Before.attrs EXCEPT ![LastKey] = List(<<LastVal>>)]
           /\ (/\ Before.attrs[LastKey].kind = "list"
               /\ ~InList(LastVal, Before.attrs[LastKey].items))
                => ret.attrs = [Before.attrs EXCEPT ![LastKey] =
                                   List(Append(Before.attrs[LastKey].items, LastVal))]
           /\ \A k \in EditKeys :
                attrs[k].kind = "absent"
                    => ret.attrs[k] = List(Dedup(ValuesFor(k)))

C6_Witness ==
    /\ Done /\ multi /\ action = "add"
    /\ \A k \in Keys : attrs[k] = Absent
    /\ edits = << <<"tags", "a">>, <<"tags", "b">> >>
    /\ ret.attrs["tags"] = List(<<"a", "b">>)
    /\ ret.attrs["owner"] = Absent

(* C7 as stated: multi delete of a value that is in the list of the key    *)
(* removes exactly one occurrence of it and keeps the other elements in    *)
(* order, and removes the key when nothing is left.                        *)
C7_ListDeleteRemovesOne ==
    (/\ Done /\ multi /\ action = "delete" /\ edits # <<>>
     /\ Before.exc = "none"
     /\ Before.attrs[LastKey].kind = "list"
     /\ InList(LastVal, Before.attrs[LastKey].items))
        => /\ ret.exc = "none"
           /\ \E i \in 1..Len(Before.attrs[LastKey].items) :
                /\ Before.attrs[LastKey].items[i] = LastVal
                /\ LET rest == DropAt(Before.attrs[LastKey].items, i)
                   IN  ret.attrs = [Before.attrs EXCEPT ![LastKey] =
                                       IF rest = <<>> THEN Absent ELSE List(rest)]

(* C7 amended: multi delete of a non-empty value that is in the list of    *)
(* the key removes exactly one occurrence of it and keeps the other        *)
(* elements in order, and removes the key when nothing is left.            *)
C7_ListDeleteRemovesOneNonEmpty ==
    (/\ Done /\ multi /\ action = "delete" /\ edits # <<>>
     /\ Before.exc = "none"
     /\ Before.attrs[LastKey].kind = "list"
     /\ LastVal # ""
     /\ InList(LastVal, Before.attrs[LastKey].items))
        => /\ ret.exc = "none"
           /\ \E i \in 1..Len(Before.attrs[LastKey].items) :
                /\ Before.attrs[LastKey].items[i] = LastVal
                /\ LET rest == DropAt(Before.attrs[LastKey].items, i)
                   IN  ret.attrs = [Before.attrs EXCEPT ![LastKey] =
                                       IF rest = <<>> THEN Absent ELSE List(rest)]

C7_Witness ==
    /\ Done /\ multi /\ action = "delete"
    /\ attrs["tags"] = List(<<"z", "a">>)
    /\ edits = << <<"tags", "a">> >>
    /\ ret.exc = "none"
    /\ ret.attrs = [attrs EXCEPT !["tags"] = List(<<"z">>)]

(* C8: multi delete with no value removes the key from the mapping, for    *)
(* every mapping: whatever list the key holds, and also when the key is    *)
(* absent, the call returns a mapping without the key.                     *)
C8_ListDeleteNoValue ==
    (/\ Done /\ multi /\ action = "delete" /\ edits # <<>>
     /\ Before.exc = "none"
     /\ LastVal = ""
     /\ Before.attrs[LastKey].kind # "str")
        => /\ ret.exc = "none"
           /\ ret.attrs = [Before.attrs EXCEPT ![LastKey] = Absent]

(* C9: with multi off, a delete edit removes its key when it is present,   *)
(* leaves the mapping as it is when the key is absent, and never raises.   *)
C9_ScalarDelete ==
    (Done /\ ~multi /\ action = "delete" /\ edits # <<>>)
        => /\ ret.exc = "none"
           /\ ret.attrs[LastKey] = Absent
           /\ \A k \in Keys \ {LastKey} : ret.attrs[k] = Before.attrs[k]
           /\ Before.attrs[LastKey] = Absent => ret.attrs = Before.attrs

C9_Witness ==
    /\ Done /\ ~multi /\ action = "delete"
    /\ \A k \in Keys : attrs[k] = Absent
    /\ edits = << <<"owner", "">> >>
    /\ ret.exc = "none"
    /\ ret.attrs = attrs

(* C10: a multi call that returns, on a mapping without empty lists,       *)
(* leaves no key with an empty list.                                       *)
C10_NoEmptyList ==
    (/\ Done /\ multi /\ ret.exc = "none"
     /\ \A k \in Keys : attrs[k] # List(<<>>))
        => \A k \in Keys : ret.attrs[k] # List(<<>>)

C10_Witness ==
    /\ Done /\ multi /\ action = "delete"
    /\ attrs["tags"] = List(<<"a">>)
    /\ attrs["owner"] = List(<<"z">>)
    /\ edits = << <<"tags", "a">> >>
    /\ ret.exc = "none"
    /\ ret.attrs["tags"] = Absent
    /\ ret.attrs["owner"] = List(<<"z">>)

----------------------------------------------------------------------------
(* Second part: site scoping and natural-key resolution.                   *)

\* most direct rebase calls made on the App before its operation starts
MaxRebase == 2

\* largest count field of a list response
MaxCount == 2

\* the limit of the lookup query (app.py:517): at most this many results
\* come back
Limit == 1

Resources == {"devices", "networks", "attributes", "interfaces", "sites"}

\* app.py:46-51
NATURAL_KEYS ==
    [rn \in {"devices", "networks", "attributes", "interfaces"} |->
        CASE rn = "devices" -> <<"hostname">>
          [] rn = "networks" -> <<"cidr">>
          [] rn = "attributes" -> <<"name", "resource_name">>
          [] rn = "interfaces" -> <<"name", "device">>]

\* app.py:514: NATURAL_KEYS.get(self.resource_name, [])
NaturalKeysOf(rn) == IF rn \in DOMAIN NATURAL_KEYS THEN NATURAL_KEYS[rn] ELSE <<>>

\* the parameters a command of each resource takes beside id and site_id:
\* its natural keys and, for attributes and sites, one that is no natural
\* key
FieldsOf(rn) ==
    CASE rn = "devices" -> {"hostname"}
      [] rn = "networks" -> {"cidr"}
      [] rn = "attributes" -> {"name", "resource_name", "description"}
      [] rn = "interfaces" -> {"name", "device"}
      [] OTHER -> {"name", "description"}

\* the nested resource a list sub-command of each resource addresses
\* (cmd_devices.py:198-206, cmd_networks.py:298-312, cmd_interfaces.py:337-343)
SubNameOf(rn) ==
    CASE rn = "devices" -> "interfaces"
      [] rn = "networks" -> "subnets"
      [] OTHER -> "addresses"

\* values of a parameter: not given (None) or given
FieldVals == {NoneV, "x"}

\* site ids: one given on the command line, one configured as the default,
\* one handed to a direct rebase call
ExplicitSite == "s1"
ConfiguredSite == "s9"
OtherSite == "s2"

\* object ids
ObjIds == {"42", "43"}
Objs == [id : ObjIds]

\* dict.get(key): None when the key is not there
DataGet(d, k) == IF k \in DOMAIN d.f THEN d.f[k] ELSE NoneV

\* Python truth of an id (app.py:625, 760)
IdGiven_Never(i) == FALSE
IdGiven(i) == i \notin {NoneV, Missing}

\* ------------------------------------------------------------------------
\* Responses.  A list response carries its objects under 'data' (keyed by
\* the resource name, or as a bare list) or under 'results'; it may carry a
\* 'count'.  A detail response is the object itself.

Envelopes == {"data_keyed", "data_list", "results"}

Min(a, b) == IF a < b THEN a ELSE b

ListResponses ==
    { r \in [has_count : {TRUE}, count : 0..MaxCount, envelope : Envelopes,
             objs : SeqsUpTo(Objs, Limit)] : Len(r.objs) <= Min(r.count, Limit) }

UncountedResponses ==
    [has_count : {FALSE}, count : {0}, envelope : {"data_keyed"},
     objs : SeqsUpTo(Objs, Limit)]

DetailResponses ==
    [has_count : {FALSE}, count : {0}, envelope : {"detail"},
     objs : { <<o>> : o \in Objs }]

Responses == ListResponses \cup UncountedResponses \cup DetailResponses

\* the answer to a GET by id whose 'data' holds null for the object
NullObject == [has_count |-> FALSE, count |-> 0, envelope |-> "data_null", objs |-> <<>>]

\* what the server does with a GET by id
ByIdAnswers == DetailResponses \cup {NullObject}

\* util.py:31-54: the list of objects for a payload with 'data', the payload
\* itself otherwise
Unwrapped(k, items, r) == [kind |-> k, items |-> items, resp |-> r]
get_result(r) ==
    CASE r.envelope \in {"data_keyed", "data_list"} -> Unwrapped("list", r.objs, NoResponse)
      [] r.envelope = "data_null" -> Unwrapped("None", <<>>, NoResponse)
      [] OTHER -> Unwrapped("dict", <<>>, r)

\* app.py:519-524: the query of the lookup, built from 'limit' and the
\* natural keys from position i on
RECURSIVE LookupParamsFrom(_, _, _, _)
LookupParamsFrom(d, nks, i, params) ==
    IF i > Len(nks)
    THEN params
    ELSE LET natural_key == nks[i]
             natural_value == DataGet(d, natural_key)
         IN  LookupParamsFrom(d, nks, i + 1,
                IF natural_value # NoneV
                THEN [k \in DOMAIN params \cup {natural_key} |->
                        IF k = natural_key THEN natural_value ELSE params[k]]
                ELSE params)

LookupParams_AllKeys(d, rn) ==
    [k \in {"limit"} \cup DOMAIN d.f |-> IF k = "limit" THEN "1" ELSE d.f[k]]
LookupParams(d, rn) ==
    LookupParamsFrom(d, NaturalKeysOf(rn), 1, [k \in {"limit"} |-> "1"])

\* a request that raises one of HTTP_ERRORS
HttpError == [has_count |-> FALSE, count |-> 0, envelope |-> "http_error", objs |-> <<>>]

\* what the server does with the lookup: a response, or an HTTP error
LookupAnswers == Responses \cup {HttpError}

\* app.py:531-534: the request raised an HTTP error
OnHttpError_Propagate == Lookup("raise", NoObject, NoResponse, "HttpError")
OnHttpError == Lookup("None", NoObject, NoResponse, "none")

\* app.py:537-540: the response has no 'count'
OnNoCount_Unwrap(r) ==
    IF Len(r.objs) > 0
    THEN Lookup("object", r.objs[1], NoResponse, "none")
    ELSE Lookup("None", NoObject, NoResponse, "none")
OnNoCount(r) == Lookup("raw", NoObject, r, "none")

\* app.py:542-544: more than one object matches
OnMany(r) == Lookup("None", NoObject, NoResponse, "none")

\* app.py:547-551: r[0] of the unwrapped response; a dict has no key 0
\* (KeyError), an empty list no first element (IndexError, caught)
FirstOf(u) ==
    CASE u.kind = "dict" -> Lookup("raise", NoObject, NoResponse, "KeyError")
      [] u.kind = "list" /\ Len(u.items) = 0 -> Lookup("None", NoObject, NoResponse, "none")
      [] OTHER -> Lookup("object", u.items[1], NoResponse, "none")

\* app.py:530-551: the result of get_single_object for the answer a
get_single_object(a) ==
    IF a = HttpError THEN OnHttpError
    ELSE IF ~a.has_count THEN OnNoCount(a)
    ELSE IF a.count > 1 THEN OnMany(a)
    ELSE FirstOf(get_result(a))

\* ------------------------------------------------------------------------
\* Rebase

\* app.py:467-471: the site of the rebase: the site_id popped from the data,
\* else the client's default, which the 'sites' resource does not take
SiteOf_DefaultFirst(d, rn, dflt) ==
    IF dflt # NoneV /\ rn # "sites" THEN dflt
    ELSE IF d.site_id = Missing THEN NoneV ELSE d.site_id
SiteOf(d, rn, dflt) ==
    LET popped == IF d.site_id = Missing THEN NoneV ELSE d.site_id
    IN  IF popped = NoneV /\ rn # "sites" THEN dflt ELSE popped

\* app.py:458-460: a rebase that was done is not done again
AlreadyRebased_Never(done) == FALSE
AlreadyRebased(done) == done

\* app.py:479-480: the rebase is marked as done, with a site or without
MarkDone_OnlyWithSite(s) == s # NoneV
MarkDone(s) == TRUE

\* app.py:451-480: the data and the App fields after rebase(d)
rebase(d, rn, dflt, sid, burl, done) ==
    IF AlreadyRebased(done)
    THEN [data |-> d, site_id |-> sid, base_url |-> burl, rebase_done |-> done]
    ELSE LET s == SiteOf(d, rn, dflt)
         IN  [data |-> [d EXCEPT !.site_id = Missing],
              site_id |-> IF s # NoneV THEN s ELSE sid,
              base_url |-> IF s # NoneV THEN Append(burl, s) ELSE burl,
              rebase_done |-> MarkDone(s)]

\* ------------------------------------------------------------------------
\* Requests

NoParams == [k \in {} |-> NoneV]

\* one request: its method, what it addresses, the function that sent it,
\* its query, and App.resource_name, App.rebase_done and the obj_id of the
\* function when it was sent (a request to an object is addressed to obj_id)
Request(m, t, by, params) ==
    [method |-> m, target |-> t, by |-> by, params |-> params,
     resource |-> resource_name, rebased |-> rebase_done, id |-> obj_id]

\* **data of a list query (app.py:640)
QueryOf(d) ==
    [k \in DOMAIN d.f \cup (IF d.id = Missing THEN {} ELSE {"id"}) |->
        IF k = "id" THEN d.id ELSE d.f[k]]

\* the ways an invocation ends
UserFacingFailures == {"failure", "missing_site", "client_error", "no_match"}
Outcomes == UserFacingFailures \cup {"running", "success", "crash"}

\* app.py:650-668: showing what a list query or a lookup gave; only a list
\* of objects can be shown
ShowResult(u) == IF u.kind = "list" THEN "success" ELSE "crash"

\* obj['id'] / obj.pop('id') on what a lookup gave (app.py:772,
\* callbacks.py:208): a raw response has an id only if it is the object
HasId(l) ==
    \/ l.kind = "object"
    \/ l.kind = "raw" /\ l.resp.envelope = "detail"

\* the id of what a lookup gave
IdOf(l) == IF l.kind = "object" THEN l.obj.id ELSE l.resp.objs[1].id

\* app.py:652-653, 660-665: [obj] is shown field by field
ShowObject(l) == IF HasId(l) THEN "success" ELSE "crash"

----------------------------------------------------------------------------
(* The invocation of the second part *)

\* the operations of an App that an invocation runs
Operations == {"add", "update", "remove", "set_query", "list", "sublist"}

InputData(e, rn) ==
    [site_id : IF e = "api" THEN {Missing, NoneV, ExplicitSite}
               ELSE IF rn = "sites" THEN {Missing}
               ELSE {NoneV, ExplicitSite},
     id : {NoneV, "7"},
     f : [FieldsOf(rn) -> FieldVals]]

InitApp ==
    /\ attrs = [k \in Keys |-> Absent]
    /\ edits = <<>>
    /\ action = "add"
    /\ multi = FALSE
    /\ ret = State(attrs, FALSE, "none")
    /\ op \in Operations
    /\ entry \in {"cli", "api"}
    /\ resource_name \in Resources
    /\ op = "sublist" => entry = "cli" /\ resource_name \in {"devices", "networks", "interfaces"}
    /\ op = "set_query" => resource_name \in {"devices", "networks", "interfaces"}
    /\ data \in InputData(entry, resource_name)
    /\ op = "add" => data.id = NoneV
    /\ op = "remove" => data.id # NoneV
    /\ op \in {"add", "remove", "set_query"} => \A k \in DOMAIN data.f : data.f[k] # NoneV
    /\ default_site \in {NoneV, ConfiguredSite}
    /\ auth_method \in {"auth_header", "auth_token"}
    /\ api_created = FALSE
    /\ site_id = NoneV
    /\ rebase_done = FALSE
    /\ base_url = <<>>
    /\ http = <<>>
    /\ outcome = "running"
    /\ obj = Unset
    /\ obj_id = NoneV
    /\ payload = NoPayload
    /\ answer = NoResponse
    /\ rdata = [given |-> Missing, site_id |-> Missing]
    /\ rebase_calls = 0
    /\ ResourceIdle
    /\ pc = IF entry = "cli" /\ resource_name # "sites" THEN "parse" ELSE "entry"

End(o) == outcome' = o /\ pc' = "done"

\* app.py:120-125, client.py:246-291, 391-398: the first use of App.api
\* creates the client; an auth_token client posts to /authenticate/, and a
\* failure of that is a usage error
CreateApi ==
    /\ pc \in {"parse", "entry"}
    /\ ~api_created
    /\ IF auth_method = "auth_token"
       THEN /\ http' = Append(http, Request("POST", "authenticate", "get_token", NoParams))
            /\ \E ok \in BOOLEAN :
                 IF ok THEN api_created' = TRUE /\ UNCHANGED <<pc, outcome>>
                 ELSE api_created' = FALSE /\ End("client_error")
       ELSE api_created' = TRUE /\ UNCHANGED <<http, pc, outcome>>
    /\ UNCHANGED <<attrvars, obj_id, payload, answer, op, entry, resource_name, data, default_site,
                   auth_method, site_id, rebase_done, base_url, obj, rdata,
                   rebase_calls>>
    /\ UNCHANGED resvars

\* callbacks.py:30-33: neither a value nor a default site
MissingSite_Never(value, dflt) == FALSE
MissingSite(value, dflt) == value = NoneV /\ dflt = NoneV

\* callbacks.py:21-38, the callback of --site-id
ProcessSiteId ==
    /\ pc = "parse"
    /\ api_created
    /\ IF data.site_id = NoneV
       THEN IF MissingSite(data.site_id, default_site)
            THEN End("missing_site") /\ UNCHANGED <<data, default_site>>
            ELSE /\ data' = [data EXCEPT !.site_id = default_site]
                 /\ pc' = "entry"
                 /\ UNCHANGED <<default_site, outcome>>
       ELSE /\ default_site' = data.site_id
            /\ pc' = "entry"
            /\ UNCHANGED <<data, outcome>>
    /\ UNCHANGED <<attrvars, obj_id, payload, answer, op, entry, resource_name, auth_method,
                   api_created, site_id, rebase_done, base_url, http, obj,
                   rdata, rebase_calls>>
    /\ UNCHANGED resvars

\* app.py:451-480: App.rebase called on its own, with any data
RebaseCall ==
    /\ pc = "entry"
    /\ entry = "api"
    /\ api_created
    /\ rebase_calls < MaxRebase
    /\ \E d \in [site_id : {Missing, OtherSite}] :
         LET r == rebase(d, resource_name, default_site, site_id, base_url, rebase_done)
         IN  /\ rdata' = [given |-> d.site_id, site_id |-> r.data.site_id]
             /\ site_id' = r.site_id
             /\ base_url' = r.base_url
             /\ rebase_done' = r.rebase_done
    /\ rebase_calls' = rebase_calls + 1
    /\ UNCHANGED <<attrvars, obj_id, payload, answer, op, entry, resource_name, data, default_site,
                   auth_method, api_created, http, outcome, obj, pc>>
    /\ UNCHANGED resvars

\* an operation that goes on to its request without the rebase
RebaseData_Skipped(d) ==
    /\ data' = d
    /\ UNCHANGED <<site_id, base_url, rebase_done>>

\* the rebase of the invocation's own data
RebaseData(d) ==
    LET r == rebase(d, resource_name, default_site, site_id, base_url, rebase_done)
    IN  /\ data' = r.data
        /\ site_id' = r.site_id
        /\ base_url' = r.base_url
        /\ rebase_done' = r.rebase_done

\* app.py:759-761: update takes the id out of the data and rebases
UpdateStart ==
    /\ pc = "entry"
    /\ op = "update"
    /\ api_created
    /\ RebaseData([data EXCEPT !.id = Missing])
    /\ pc' = IF IdGiven(data.id) THEN "update_get" ELSE "update_lookup"
    /\ obj_id' = data.id
    /\ UNCHANGED <<attrvars, obj, payload, answer, op, entry, resource_name, default_site,
                   auth_method, api_created, http, outcome, rdata,
                   rebase_calls>>
    /\ UNCHANGED resvars

\* app.py:763-770, 772: update with an id fetches the object by id
UpdateGetById ==
    /\ pc = "update_get"
    /\ http' = Append(http, Request("GET", "object", "update", NoParams))
    /\ \E a \in ByIdAnswers \cup {HttpError} :
         /\ answer' = a
         /\ CASE a = HttpError -> End("failure") /\ UNCHANGED <<obj, obj_id>>
              [] get_result(a).kind = "None" ->
                    /\ obj' = Lookup("None", NoObject, NoResponse, "none")
                    /\ End("failure")
                    /\ UNCHANGED obj_id
              [] OTHER ->
                    /\ obj' = Lookup("object", a.objs[1], NoResponse, "none")
                    /\ obj_id' = a.objs[1].id
                    /\ pc' = "update_put"
                    /\ UNCHANGED outcome
    /\ UNCHANGED <<attrvars, payload, op, entry, resource_name, data, default_site,
                   auth_method, api_created, site_id, rebase_done, base_url,
                   rdata, rebase_calls>>
    /\ UNCHANGED resvars

\* app.py:774-776: what update does when the lookup gave None
OnUpdateNone_GoOn == "update_put"
OnUpdateNone == "done"

\* app.py:763-776: update without an id looks the object up by natural key
UpdateLookup ==
    /\ pc = "update_lookup"
    /\ http' = Append(http, Request("GET", "collection", "get_single_object",
                                    LookupParams(data, resource_name)))
    /\ \E a \in LookupAnswers :
         /\ answer' = a
         /\ LET l == get_single_object(a)
            IN  /\ obj' = l
                /\ CASE l.kind = "raise" -> End("crash") /\ UNCHANGED obj_id
                     [] l.kind = "None" ->
                           /\ pc' = OnUpdateNone
                           /\ outcome' = IF OnUpdateNone = "done" THEN "failure" ELSE outcome
                           /\ UNCHANGED obj_id
                     [] ~HasId(l) -> End("crash") /\ UNCHANGED obj_id
                     [] OTHER ->
                           /\ obj_id' = IdOf(l)
                           /\ pc' = "update_put"
                           /\ UNCHANGED outcome
    /\ UNCHANGED <<attrvars, payload, op, entry, resource_name, data, default_site,
                   auth_method, api_created, site_id, rebase_done, base_url,
                   rdata, rebase_calls>>
    /\ UNCHANGED resvars

\* app.py:488-489, 679-680, 802-803, 243-245: a failed POST, PUT or DELETE
\* is reported by handle_error, which exits; [p] is where the request was
\* sent from
OnWriteError_Retry(p) == p
OnWriteError(p) == "done"

\* the report of a POST, PUT or DELETE that was answered with [ok]
Report(ok) ==
    IF ok THEN End("success")
    ELSE outcome' = "failure" /\ pc' = OnWriteError(pc)

\* the value every field of a fetched object has before the update
Fetched == "old"

\* app.py:779-780: the keys of the fetched object once its id is popped,
\* besides attributes; a Site has no site_id
FetchedKeys(rn) == FieldsOf(rn) \cup (IF rn = "sites" THEN {} ELSE {"site_id"})

\* the update commands of these resources take -a/--attributes and the
\* --multi flag (cmd_devices.py:249-315, cmd_networks.py:627,
\* cmd_interfaces.py:518); those of sites and attributes do not
HasAttributes(rn) == rn \in {"devices", "networks", "interfaces"}

\* app.py:785: the value of key k in the data of update after lines
\* 753-757; the --multi flag stays in the data (app.py:755 reads it with get)
DataValue(d, rn, mul, k) ==
    CASE k = "id" -> d.id
      [] k = "site_id" -> d.site_id
      [] k = "multi" -> IF HasAttributes(rn)
                        THEN (IF mul THEN "True" ELSE "False")
                        ELSE Missing
      [] k \in DOMAIN d.f -> d.f[k]
      [] OTHER -> Missing

\* the keys of the data of update other than attributes
DataKeys(d, rn, mul) ==
    {k \in DOMAIN d.f \cup {"id", "site_id", "multi"} : DataValue(d, rn, mul, k) # Missing}

\* app.py:793-795: the value of a key of the payload, from the value the
\* data has for it and the fetched one
FieldOf_Always(val, fetched) == val
FieldOf(val, fetched) == IF val \notin {NoneV, Missing} THEN val ELSE fetched

\* callbacks.py:75-108: data['attributes'], the edits as a dict
GivenAttributes(es) ==
    [k \in Keys |->
        IF \E i \in 1..Len(es) : es[i][1] = k
        THEN LET last == CHOOSE i \in 1..Len(es) :
                            es[i][1] = k /\ \A j \in (i + 1)..Len(es) : es[j][1] # k
             IN  Str(es[last][2])
        ELSE Absent]

\* app.py:788-789: the mapping the edits are merged into is the fetched
\* one (payload['attributes']), not the one of the data
MergeBase_Given(fetched, given) == given
MergeBase(fetched, given) == fetched

\* app.py:785-795: the payload of the PUT, [merged] being its attributes
PutPayload(d, rn, mul, merged) ==
    LET written == {k \in DataKeys(d, rn, mul) : DataValue(d, rn, mul, k) # NoneV}
    IN  [fields |-> [k \in FetchedKeys(rn) \cup written |->
                        FieldOf(DataValue(d, rn, mul, k),
                                IF k \in FetchedKeys(rn) THEN Fetched ELSE Missing)],
         attributes |-> merged]

\* app.py:785-805: the payload is built, process_attributes being called
\* when the data has attributes, then the PUT is sent and its result
\* reported
UpdatePut ==
    /\ pc = "update_put"
    /\ LET merged == IF HasAttributes(resource_name)
                     THEN process_attributes(MergeBase(attrs, GivenAttributes(edits)),
                                             edits, action, multi)
                     ELSE State(attrs, FALSE, "none")
       IN  /\ ret' = merged
           /\ IF merged.exc # "none"
              THEN /\ End("crash")
                   /\ UNCHANGED <<http, payload>>
              ELSE /\ payload' = PutPayload(data, resource_name, multi, merged.attrs)
                   /\ http' = Append(http, Request("PUT", "object", "update", NoParams))
                   /\ \E ok \in BOOLEAN : Report(ok)
    /\ UNCHANGED <<attrs, edits, action, multi, obj_id, answer, op, entry, resource_name,
                   data, default_site, auth_method, api_created, site_id, rebase_done,
                   base_url, obj, rdata, rebase_calls>>
    /\ UNCHANGED resvars

\* app.py:482-486: add rebases
AddStart ==
    /\ pc = "entry"
    /\ op = "add"
    /\ api_created
    /\ RebaseData(data)
    /\ pc' = "add_post"
    /\ UNCHANGED <<attrvars, obj_id, payload, answer, op, entry, resource_name, default_site,
                   auth_method, api_created, http, outcome, obj, rdata,
                   rebase_calls>>
    /\ UNCHANGED resvars

\* app.py:488-493: the POST and the report of its result
AddPost ==
    /\ pc = "add_post"
    /\ http' = Append(http, Request("POST", "collection", "add", NoParams))
    /\ \E ok \in BOOLEAN : Report(ok)
    /\ UNCHANGED <<attrvars, obj_id, payload, answer, op, entry, resource_name, data, default_site,
                   auth_method, api_created, site_id, rebase_done, base_url,
                   obj, rdata, rebase_calls>>
    /\ UNCHANGED resvars

\* app.py:670-675: remove reads the id and rebases
RemoveStart ==
    /\ pc = "entry"
    /\ op = "remove"
    /\ api_created
    /\ RebaseData(data)
    /\ obj_id' = data.id
    /\ pc' = "remove_delete"
    /\ UNCHANGED <<attrvars, payload, answer, op, entry, resource_name, default_site,
                   auth_method, api_created, http, outcome, obj, rdata,
                   rebase_calls>>
    /\ UNCHANGED resvars

\* app.py:677-682: the DELETE and the report of its result
RemoveDelete ==
    /\ pc = "remove_delete"
    /\ http' = Append(http, Request("DELETE", "object", "remove", NoParams))
    /\ \E ok \in BOOLEAN : Report(ok)
    /\ UNCHANGED <<attrvars, obj_id, payload, answer, op, entry, resource_name, data, default_site,
                   auth_method, api_created, site_id, rebase_done, base_url,
                   obj, rdata, rebase_calls>>
    /\ UNCHANGED resvars

\* app.py:571-581: set_query rebases
SetQueryStart ==
    /\ pc = "entry"
    /\ op = "set_query"
    /\ api_created
    /\ RebaseData(data)
    /\ pc' = "set_query"
    /\ UNCHANGED <<attrvars, obj_id, payload, answer, op, entry, resource_name, default_site,
                   auth_method, api_created, http, outcome, obj, rdata,
                   rebase_calls>>
    /\ UNCHANGED resvars

\* app.py:582-589: the set query and the display of its result
SetQuery ==
    /\ pc = "set_query"
    /\ http' = Append(http, Request("GET", "query", "set_query", QueryOf(data)))
    /\ \E a \in ListResponses \cup UncountedResponses \cup {HttpError} :
         /\ answer' = a
         /\ IF a = HttpError
            THEN End("failure")
            ELSE End(ShowResult(get_result(a)))
    /\ UNCHANGED <<attrvars, obj_id, payload, op, entry, resource_name, data, default_site,
                   auth_method, api_created, site_id, rebase_done, base_url,
                   obj, rdata, rebase_calls>>
    /\ UNCHANGED resvars

\* app.py:607-619: list reads the id and rebases
ListStart ==
    /\ pc = "entry"
    /\ op = "list"
    /\ api_created
    /\ RebaseData(data)
    /\ pc' = IF IdGiven(data.id) THEN "list_get" ELSE "list_lookup"
    /\ obj_id' = data.id
    /\ UNCHANGED <<attrvars, payload, answer, op, entry, resource_name, default_site,
                   auth_method, api_created, http, outcome, obj, rdata,
                   rebase_calls>>
    /\ UNCHANGED resvars

\* app.py:623-636, 642-665: list with an id fetches the object by id and
\* shows it; when that gives None it goes on to the lookup
ListGetById ==
    /\ pc = "list_get"
    /\ http' = Append(http, Request("GET", "object", "list", NoParams))
    /\ \E a \in ByIdAnswers \cup {HttpError} :
         /\ answer' = a
         /\ CASE a = HttpError -> End("failure") /\ UNCHANGED obj
              [] get_result(a).kind = "None" ->
                    /\ obj' = Lookup("None", NoObject, NoResponse, "none")
                    /\ pc' = "list_lookup"
                    /\ UNCHANGED outcome
              [] OTHER ->
                    /\ obj' = Lookup("object", a.objs[1], NoResponse, "none")
                    /\ End("success")
    /\ UNCHANGED <<attrvars, obj_id, payload, op, entry, resource_name, data, default_site,
                   auth_method, api_created, site_id, rebase_done, base_url,
                   rdata, rebase_calls>>
    /\ UNCHANGED resvars

\* app.py:635-640: what list does when the lookup gave None
OnListNone_Fail == "done"
OnListNone == "list_query"

\* app.py:630-640, 650-665: list without an id looks one object up by
\* natural key and shows it; with None it goes on to the list query
ListLookup ==
    /\ pc = "list_lookup"
    /\ http' = Append(http, Request("GET", IF op = "sublist" THEN "nested" ELSE "collection",
                                    "get_single_object",
                                    LookupParams(data, resource_name)))
    /\ \E a \in LookupAnswers :
         /\ answer' = a
         /\ LET l == get_single_object(a)
            IN  /\ obj' = l
                /\ CASE l.kind = "raise" -> End("crash")
                     [] l.kind = "None" ->
                           /\ pc' = OnListNone
                           /\ outcome' = IF OnListNone = "done" THEN "failure" ELSE outcome
                     [] OTHER -> End(ShowObject(l))
    /\ UNCHANGED <<attrvars, obj_id, payload, op, entry, resource_name, data, default_site,
                   auth_method, api_created, site_id, rebase_done, base_url,
                   rdata, rebase_calls>>
    /\ UNCHANGED resvars

\* app.py:638-668: the list query and the display of its result
ListQuery ==
    /\ pc = "list_query"
    /\ http' = Append(http, Request("GET", IF op = "sublist" THEN "nested" ELSE "collection",
                                    "list", QueryOf(data)))
    /\ \E a \in ListResponses \cup UncountedResponses \cup {HttpError} :
         /\ answer' = a
         /\ IF a = HttpError
            THEN End("failure")
            ELSE End(ShowResult(get_result(a)))
    /\ UNCHANGED <<attrvars, obj_id, payload, op, entry, resource_name, data, default_site,
                   auth_method, api_created, site_id, rebase_done, base_url,
                   obj, rdata, rebase_calls>>
    /\ UNCHANGED resvars

\* callbacks.py:263-272, 288-302: the list sub-command takes the parent's id
\* out of the data and rebases; with an id it goes on to the nested list
SubStart ==
    /\ pc = "entry"
    /\ op = "sublist"
    /\ api_created
    /\ RebaseData([data EXCEPT !.id = Missing])
    /\ obj_id' = data.id
    /\ IF IdGiven(data.id)
       THEN /\ pc' = "list_lookup"
            /\ resource_name' = SubNameOf(resource_name)
       ELSE /\ pc' = "sub_lookup"
            /\ UNCHANGED resource_name
    /\ UNCHANGED <<attrvars, obj, payload, answer, op, entry, default_site, auth_method,
                   api_created, http, outcome, rdata, rebase_calls>>
    /\ UNCHANGED resvars

\* callbacks.py:184-217, 289-302: the parent is looked up by natural key; no
\* parent is a usage error
SubLookup ==
    /\ pc = "sub_lookup"
    /\ http' = Append(http, Request("GET", "collection", "get_single_object",
                                    LookupParams(data, resource_name)))
    /\ \E a \in LookupAnswers :
         /\ answer' = a
         /\ LET l == get_single_object(a)
            IN  /\ obj' = l
                /\ CASE l.kind = "raise" -> End("crash") /\ UNCHANGED <<resource_name, obj_id>>
                     [] l.kind = "None" -> End("no_match") /\ UNCHANGED <<resource_name, obj_id>>
                     [] ~HasId(l) -> End("crash") /\ UNCHANGED <<resource_name, obj_id>>
                     [] OTHER -> /\ pc' = "list_lookup"
                                 /\ obj_id' = IdOf(l)
                                 /\ resource_name' = SubNameOf(resource_name)
                                 /\ UNCHANGED outcome
    /\ UNCHANGED <<attrvars, payload, op, entry, data, default_site, auth_method,
                   api_created, site_id, rebase_done, base_url, rdata,
                   rebase_calls>>
    /\ UNCHANGED resvars

NextApp ==
    \/ CreateApi
    \/ ProcessSiteId
    \/ RebaseCall
    \/ UpdateStart
    \/ UpdateGetById
    \/ UpdateLookup
    \/ UpdatePut
    \/ ListStart
    \/ ListGetById
    \/ ListLookup
    \/ ListQuery
    \/ SubStart
    \/ SubLookup
    \/ AddStart
    \/ AddPost
    \/ RemoveStart
    \/ RemoveDelete
    \/ SetQueryStart
    \/ SetQuery

SpecApp == InitApp /\ [][NextApp]_vars

----------------------------------------------------------------------------
(* Updates of objects with attributes: the invocations of update, with    *)
(* fetched attributes and edits of every kind.                             *)

\* the attributes of the fetched object: nothing, a string or a list
\* under each key
FetchedAttrSets == [Keys -> {Absent, Str("z"), List(<<"z">>)}]

\* the edits of the command: none, or one of either key
GivenEdits == {<<>>} \cup {<<(<<k, "a">>)>> : k \in Keys}

InitUpdate ==
    /\ op = "update"
    /\ resource_name \in {"devices", "sites"}
    /\ attrs \in FetchedAttrSets
    /\ edits \in GivenEdits
    /\ action \in Actions
    /\ multi \in BOOLEAN
    /\ ~HasAttributes(resource_name) =>
          attrs = [k \in Keys |-> Absent] /\ edits = <<>> /\ action = "add" /\ ~multi
    /\ ret = State(attrs, FALSE, "none")
    /\ entry \in {"cli", "api"}
    /\ data \in InputData(entry, resource_name)
    /\ default_site = ConfiguredSite
    /\ auth_method = "auth_header"
    /\ api_created = FALSE
    /\ site_id = NoneV
    /\ rebase_done = FALSE
    /\ base_url = <<>>
    /\ http = <<>>
    /\ outcome = "running"
    /\ obj = Unset
    /\ obj_id = NoneV
    /\ payload = NoPayload
    /\ answer = NoResponse
    /\ rdata = [given |-> Missing, site_id |-> Missing]
    /\ rebase_calls = 0
    /\ ResourceIdle
    /\ pc = IF entry = "cli" /\ resource_name # "sites" THEN "parse" ELSE "entry"

NextUpdate ==
    \/ CreateApi
    \/ ProcessSiteId
    \/ UpdateStart
    \/ UpdateGetById
    \/ UpdateLookup
    \/ UpdatePut

SpecUpdate == InitUpdate /\ [][NextUpdate]_vars

----------------------------------------------------------------------------
(* Resource objects (models.py).  The server is the environment: the      *)
(* answer to the existence lookup and the success of a write are chosen   *)
(* at each call.                                                           *)

ResourceTypes == {"networks", "devices", "interfaces"}

\* the keys of the payload and the values item assignment gives them
PayloadKeys == {"site_id", "name"}
PayloadVals(k) == IF k = "site_id" THEN {"s1", "s2"} ELSE {"x", "y"}

\* one request of a Resource: a lookup goes to the resource under a site,
\* a write to the resource, PATCH and DELETE with the id of the upstream
\* object
RRequest(m, rt, site, id, params) ==
    [method |-> m, resource |-> rt, site |-> site, id |-> id, params |-> params]

\* what the server does with the existence lookup
ExistenceAnswers == ListResponses \cup UncountedResponses \cup {HttpError}

\* what existing_resource leaves: the cache, what it logged, what it
\* requested and was answered, and the exception it raised
ER(c, errs, reqs, e, a) ==
    [cached |-> c, errors |-> errs, requests |-> reqs, exc |-> e, answer |-> a]

\* models.py:309-352: a filled cache is returned as it is; otherwise the
\* payload is looked up under its site.  A payload without site_id and a
\* failed request are logged and give {}; len(lookup) and lookup[0] are
\* outside the try, and a payload that get_result does not unwrap has no
\* key 0
existing_resource(c, rt, p, a) ==
    IF c # NoObject
    THEN ER(c, <<>>, <<>>, "none", NoResponse)
    ELSE IF p.site_id = Missing
    THEN ER(NoObject, <<"KeyError">>, <<>>, "none", NoResponse)
    ELSE LET req == RRequest("GET", rt, p.site_id, NoneV, p)
         IN  IF a = HttpError
             THEN ER(NoObject, <<"HttpError">>, <<req>>, "none", a)
             ELSE LET lookup == get_result(a)
                  IN  CASE lookup.kind = "dict" -> ER(NoObject, <<>>, <<req>>, "KeyError", a)
                        [] Len(lookup.items) > 0 -> ER(lookup.items[1], <<>>, <<req>>, "none", a)
                        [] OTHER -> ER(NoObject, <<>>, <<req>>, "none", a)

\* models.py:354-361
clear_cache == NoObject

\* a call that looked the resource up as [er], then sent [wreqs] with
\* outcome [w] and logged [werrs]
Called(n, k, res, er, w, wreqs, werrs) ==
    [name |-> n, key |-> k, had |-> NoObject, result |-> res,
     requests |-> er.requests \o wreqs, answer |-> er.answer, write |-> w,
     errors |-> er.errors \o werrs]

\* the cache and the call record a call leaves
Left(c, cl) == [cached |-> c, call |-> cl]

\* models.py:363-368
exists(c, rt, p, a) ==
    LET er == existing_resource(c, rt, p, a)
    IN  Left(er.cached,
             Called("exists", NoneV,
                    IF er.exc # "none" THEN er.exc
                    ELSE IF er.cached # NoObject THEN "True" ELSE "False",
                    er, "none", <<>>, <<>>))

\* models.py:370-409: [a] answers the lookup, [ok] tells whether the write
\* succeeds.  The branch that posts returns without clearing the cache.
ensure(rt, p, a, ok) ==
    LET er == existing_resource(clear_cache, rt, p, a)
        patch == RRequest("PATCH", rt, NoneV, er.cached.id, p)
        post == RRequest("POST", rt, NoneV, NoneV, p)
    IN  IF er.exc # "none"
        THEN Left(clear_cache, Called("ensure", NoneV, "False", er, "none", <<>>, <<er.exc>>))
        ELSE IF er.cached # NoObject /\ rt # "interfaces"
        THEN IF ok
             THEN Left(clear_cache, Called("ensure", NoneV, "True", er, "ok", <<patch>>, <<>>))
             ELSE Left(clear_cache,
                       Called("ensure", NoneV, "False", er, "failed", <<patch>>, <<"HttpError">>))
        ELSE IF ok
             THEN Left(er.cached, Called("ensure", NoneV, "True", er, "ok", <<post>>, <<>>))
             ELSE Left(clear_cache,
                       Called("ensure", NoneV, "False", er, "failed", <<post>>, <<"HttpError">>))

\* models.py:411-439
purge(rt, p, a, ok) ==
    LET er == existing_resource(clear_cache, rt, p, a)
        delete == RRequest("DELETE", rt, NoneV, er.cached.id, p)
    IN  IF er.exc # "none"
        THEN Left(clear_cache, Called("purge", NoneV, "False", er, "none", <<>>, <<er.exc>>))
        ELSE IF er.cached # NoObject
        THEN IF ok
             THEN Left(clear_cache, Called("purge", NoneV, "True", er, "ok", <<delete>>, <<>>))
             ELSE Left(clear_cache,
                       Called("purge", NoneV, "False", er, "failed", <<delete>>, <<"HttpError">>))
        ELSE Left(er.cached, Called("purge", NoneV, "True", er, "none", <<>>, <<>>))

\* models.py:249-263: item assignment and deletion clear the cache before
\* they touch the payload
OnChange_Keep(c) == c
OnChange(c) == clear_cache

\* models.py:306-307: last_error is the last error logged
LastError(le, errs) == IF errs = <<>> THEN le ELSE errs[Len(errs)]

InitResource ==
    /\ attrs = [k \in Keys |-> Absent]
    /\ edits = <<>>
    /\ action = "add"
    /\ multi = FALSE
    /\ ret = State(attrs, FALSE, "none")
    /\ AppIdle
    /\ rtype \in ResourceTypes
    /\ rpayload \in [site_id : PayloadVals("site_id"), name : PayloadVals("name")]
    /\ cached = NoObject
    /\ last_error = NoneV
    /\ call = NoCall
    /\ pc = "resource"

\* a call that leaves [r]; the record of the call keeps the cache the
\* call found
Leave(r) ==
    /\ cached' = r.cached
    /\ call' = [r.call EXCEPT !.had = cached]
    /\ last_error' = LastError(last_error, r.call.errors)

Exists ==
    /\ pc = "resource"
    /\ \E a \in ExistenceAnswers : Leave(exists(cached, rtype, rpayload, a))
    /\ UNCHANGED <<rtype, rpayload, attrvars, appvars, pc>>

Ensure ==
    /\ pc = "resource"
    /\ \E a \in ExistenceAnswers, ok \in BOOLEAN : Leave(ensure(rtype, rpayload, a, ok))
    /\ UNCHANGED <<rtype, rpayload, attrvars, appvars, pc>>

Purge ==
    /\ pc = "resource"
    /\ \E a \in ExistenceAnswers, ok \in BOOLEAN : Leave(purge(rtype, rpayload, a, ok))
    /\ UNCHANGED <<rtype, rpayload, attrvars, appvars, pc>>

\* models.py:249-255
SetItem ==
    /\ pc = "resource"
    /\ \E k \in PayloadKeys :
         \E v \in PayloadVals(k) :
            /\ rpayload' = [rpayload EXCEPT ![k] = v]
            /\ Leave(Left(OnChange(cached),
                          Called("setitem", k, NoneV, ER(NoObject, <<>>, <<>>, "none", NoResponse),
                                 "none", <<>>, <<>>)))
    /\ UNCHANGED <<rtype, attrvars, appvars, pc>>

\* models.py:257-263: del of a key the payload lacks raises KeyError, once
\* the cache is cleared
DelItem ==
    /\ pc = "resource"
    /\ \E k \in PayloadKeys :
         /\ rpayload' = [rpayload EXCEPT ![k] = Missing]
         /\ Leave(Left(OnChange(cached),
                       Called("delitem", k, IF rpayload[k] = Missing THEN "KeyError" ELSE NoneV,
                              ER(NoObject, <<>>, <<>>, "none", NoResponse), "none", <<>>, <<>>)))
    /\ UNCHANGED <<rtype, attrvars, appvars, pc>>

NextResource ==
    \/ Exists
    \/ Ensure
    \/ Purge
    \/ SetItem
    \/ DelItem

SpecResource == InitResource /\ [][NextResource]_vars

\* C25: process_attributes changes only the entries whose key some edit
\* names: whatever the action and the multi setting, every other key holds
\* its fetched value in the mapping the call leaves (also when it raises),
\* the mapping returned has every such entry, and the edits are as given.
C25_OnlyEditedKeysChange ==
    /\ [](Done => \A k \in Keys \ EditKeys : ret.attrs[k] = attrs[k])
    /\ [](Done /\ ret.exc = "none" =>
             {k \in Keys \ EditKeys : attrs[k] # Absent} \subseteq
                {k \in Keys : ret.attrs[k] # Absent})
    /\ [][edits' = edits]_vars

\* a call with edits has returned and a key that no edit names holds its
\* fetched value, while an edited key has changed
C25_Witness ==
    /\ Done
    /\ ret.exc = "none"
    /\ edits # <<>>
    /\ ret.attrs # attrs
    /\ \E k \in Keys \ EditKeys : attrs[k] # Absent /\ ret.attrs[k] = attrs[k]

----------------------------------------------------------------------------
(* Vocabulary of the properties of the second part *)

LastRequest == http[Len(http)]

\* get_single_object has just returned: answer is what the server answered
\* to its query and obj is what it gave
AfterLookup == Len(http) > 0 /\ LastRequest.by = "get_single_object"

ReturnedNone == obj.kind = "None"
ReturnedObject(o) == obj.kind = "object" /\ obj.obj = o
ReturnedRaw(r) == obj.kind = "raw" /\ obj.resp = r
Raised == obj.kind = "raise"

Mutating(r) == r.method \in {"POST", "PUT", "DELETE"} /\ r.target # "authenticate"

----------------------------------------------------------------------------
(* Properties of get_single_object *)

\* C11: whenever the lookup response has a count and either count > 1 or
\* count <= 1 with no result in it, get_single_object returns None; with
\* count > 1 it never returns one of the objects of the response.
C11_NoneWhenManyOrEmpty ==
    AfterLookup /\ answer.has_count =>
        /\ answer.count > 1 \/ Len(answer.objs) = 0 => ReturnedNone
        /\ answer.count > 1 => \A i \in 1..Len(answer.objs) : ~ReturnedObject(answer.objs[i])

\* C12: when the lookup response has count = 1 and exactly one result,
\* get_single_object returns that result object.
C12_OneResultReturned ==
    AfterLookup /\ answer.has_count /\ answer.count = 1 /\ Len(answer.objs) = 1 =>
        ReturnedObject(answer.objs[1])

\* the set of the elements of a sequence
Range(q) == { q[i] : i \in 1..Len(q) }

\* C18: the query of the lookup holds limit=1 and, of the natural keys
\* declared for the resource, exactly those whose value in the data is not
\* None, each with that value; it holds no other parameter of the data.
C18_LookupQuery ==
    AfterLookup =>
        LET q == LastRequest.params
            given == { k \in Range(NaturalKeysOf(LastRequest.resource)) :
                         DataGet(data, k) # NoneV }
        IN  /\ DOMAIN q = {"limit"} \cup given
            /\ q["limit"] = "1"
            /\ \A k \in given : q[k] = data.f[k]

\* a lookup of an attribute by name alone, with a description given too
C18_Witness ==
    /\ AfterLookup
    /\ LastRequest.resource = "attributes"
    /\ data.f["name"] = "x"
    /\ data.f["resource_name"] = NoneV
    /\ data.f["description"] = "x"
    /\ DOMAIN LastRequest.params = {"limit", "name"}

\* C19: when the request of the lookup raises an HTTP error,
\* get_single_object returns None and raises nothing.
C19_HttpErrorGivesNone ==
    AfterLookup /\ answer = HttpError => ReturnedNone /\ ~Raised

\* a lookup whose request raised an HTTP error has returned
C19_Witness ==
    /\ AfterLookup
    /\ answer = HttpError
    /\ ReturnedNone

\* C20: when the lookup response has no count field, get_single_object
\* returns the response itself, not unwrapped and not indexed.
C20_NoCountGivesRaw ==
    AfterLookup /\ answer # HttpError /\ ~answer.has_count => ReturnedRaw(answer)

\* a lookup answered by a single object without count has returned it
C20_Witness ==
    /\ AfterLookup
    /\ answer \in DetailResponses
    /\ ReturnedRaw(answer)

----------------------------------------------------------------------------
(* Properties of the operations *)

\* some request of the invocation was the query of a lookup
LookedUp == \E i \in 1..Len(http) : http[i].by = "get_single_object"

\* the answer has a count above one: the natural key is ambiguous
Ambiguous(a) == a.has_count /\ a.count > 1

\* the answer has a count and no object in it
NotFound(a) == a.has_count /\ a.count <= 1 /\ Len(a.objs) = 0

\* C13: in an update by natural key, when the lookup is ambiguous or finds
\* no object, the invocation sends no PUT and no other mutating request.
C13_NoMutationWithoutObject ==
    op = "update" /\ LookedUp /\ (Ambiguous(answer) \/ NotFound(answer)) =>
        \A i \in 1..Len(http) : ~Mutating(http[i])

\* an update by natural key has ended after an ambiguous lookup
C13_Witness ==
    /\ op = "update"
    /\ pc = "done"
    /\ LookedUp
    /\ Ambiguous(answer)
    /\ outcome = "failure"

\* C14: however many times rebase is called on one App, a site segment is
\* appended to the base URL at most once: once rebase_done is true, no step
\* changes the base URL or site_id, whatever data rebase is given.
C14_RebaseOnce ==
    /\ [](Len(base_url) <= 1)
    /\ [][rebase_done => base_url' = base_url /\ site_id' = site_id]_vars

\* a second rebase call was given a site_id after the first had appended one
C14_Witness ==
    /\ rebase_calls = 2
    /\ rebase_done
    /\ rdata.site_id = OtherSite
    /\ Len(base_url) = 1

\* C16: the first rebase uses the site_id of its data when the data holds
\* one; otherwise the client's default_site, which the 'sites' resource does
\* not take: with no site the base URL and site_id stay as they were.
C16_FirstRebaseSite ==
    [][~rebase_done /\ rebase_done' =>
        LET given == IF rebase_calls' # rebase_calls THEN rdata'.given ELSE data.site_id
        IN  IF given \notin {Missing, NoneV}
            THEN site_id' = given /\ base_url' = Append(base_url, given)
            ELSE IF resource_name # "sites" /\ default_site # NoneV
            THEN site_id' = default_site /\ base_url' = Append(base_url, default_site)
            ELSE site_id' = site_id /\ base_url' = base_url]_vars

\* the first rebase, of the operation's own data, took the site_id of the
\* data although a default was configured
C16_Witness ==
    /\ entry = "api"
    /\ rebase_calls = 0
    /\ rebase_done
    /\ default_site = ConfiguredSite
    /\ site_id = ExplicitSite
    /\ base_url = <<ExplicitSite>>

\* a command of a site-scoped resource has ended that was given no site_id,
\* with no default site configured
NoSiteCommandEnded ==
    /\ entry = "cli"
    /\ resource_name # "sites"
    /\ data.site_id = NoneV
    /\ default_site = NoneV
    /\ pc = "done"

\* the parameters of a command of a site-scoped resource are being
\* processed; no site_id was given and no default site is configured
NoSiteCommand ==
    /\ entry = "cli"
    /\ resource_name # "sites"
    /\ pc = "parse"
    /\ data.site_id = NoneV
    /\ default_site = NoneV

LastLookup == IF LastRequest.by = "get_single_object" THEN LastRequest ELSE http[Len(http) - 1]

\* the invocation has ended and its last lookup resolved no object: it gave
\* None (ambiguous, not found, or an HTTP error), or it raised on an answer
\* that holds no object
ResolutionFailed ==
    /\ pc = "done"
    /\ LookedUp
    /\ ReturnedNone \/ (Raised /\ NotFound(answer))

LookupStep ==
    /\ Len(http') = Len(http) + 1
    /\ http'[Len(http')].by = "get_single_object"

\* C21: with an id in the parameters the object is addressed by that id and
\* no lookup by natural key is made: update sends a lookup only when it was
\* given no id, and list with an id sends one only after the GET by id gave
\* no object.
C21_IdSkipsLookup ==
    /\ [][LookupStep /\ op = "update" => obj_id \in {NoneV, Missing}]_vars
    /\ [][LookupStep /\ op = "list" /\ data.id \notin {NoneV, Missing} =>
            LastRequest.by = "list" /\ LastRequest.target = "object" /\ answer = NullObject]_vars

\* an update with an id has fetched the object by id and sent its PUT
\* without any lookup
C21_Witness ==
    /\ op = "update"
    /\ pc = "done"
    /\ outcome = "success"
    /\ ~LookedUp
    /\ \E i \in 1..Len(http) : http[i].method = "GET" /\ http[i].target = "object"

\* the step calls rebase: on its own, or as the start of the operation
RebaseStep ==
    /\ api_created
    /\ pc = "entry"
    /\ rebase_calls' # rebase_calls \/ pc' # pc

\* the site_id of the data handed to the rebase of the step, before and
\* after the call
RebaseGiven == IF rebase_calls' # rebase_calls THEN rdata'.given ELSE data.site_id
RebaseLeft == IF rebase_calls' # rebase_calls THEN rdata'.site_id ELSE data'.site_id

\* C29: the first rebase call sets rebase_done also when it resolves no
\* site, and then leaves the base URL as it was; a later rebase call whose
\* data carries a site_id appends no segment and leaves the site_id in its
\* data.
C29_RebaseDoneWithoutSite ==
    /\ [][RebaseStep /\ ~rebase_done => rebase_done']_vars
    /\ [][RebaseStep /\ ~rebase_done /\ RebaseGiven \in {Missing, NoneV}
            /\ (resource_name = "sites" \/ default_site = NoneV) =>
            base_url' = base_url /\ site_id' = site_id]_vars
    /\ [][RebaseStep /\ rebase_done /\ RebaseGiven \notin {Missing, NoneV} =>
            base_url' = base_url /\ site_id' = site_id /\ RebaseLeft = RebaseGiven]_vars

\* after a first rebase that resolved no site, the rebase of the operation
\* was given a site_id and left it in the data
C29_Witness ==
    /\ pc \notin {"parse", "entry"}
    /\ rebase_calls >= 1
    /\ rebase_done
    /\ base_url = <<>>
    /\ data.site_id = ExplicitSite

\* the step sends a request to an endpoint of a resource
ResourceRequestStep ==
    /\ Len(http') = Len(http) + 1
    /\ http'[Len(http')].target # "authenticate"

\* C27: in add, update, remove, set_query, list and the list sub-command,
\* every request to a resource endpoint is sent after the rebase of the
\* invocation has completed, with or without an id in the data.
C27_RebaseBeforeFirstRequest ==
    [][ResourceRequestStep =>
        /\ pc \notin {"parse", "entry"}
        /\ rebase_done
        /\ http'[Len(http')].rebased]_vars

\* an invocation with an id has sent its request under the site it was
\* rebased to
C27_Witness ==
    /\ op \in {"update", "remove", "list"}
    /\ obj_id \notin {NoneV, Missing}
    /\ Len(http) > 0
    /\ LastRequest.target = "object"
    /\ LastRequest.rebased
    /\ Len(base_url) = 1

\* the number of mutating requests among the first n
RECURSIVE MutatingCount(_)
MutatingCount(n) ==
    IF n = 0 THEN 0
    ELSE MutatingCount(n - 1) + (IF Mutating(http[n]) THEN 1 ELSE 0)

\* C28: an add, update or remove sends at most one POST, PUT or DELETE; a
\* mutating request is the last request of its invocation, and when it
\* fails the failure is reported and the invocation has ended.
C28_OneMutationNoRetry ==
    op \in {"add", "update", "remove"} =>
        /\ MutatingCount(Len(http)) <= 1
        /\ \A i \in 1..Len(http) : Mutating(http[i]) =>
              /\ i = Len(http)
              /\ pc = "done"
              /\ outcome \in {"success", "failure"}

\* an add has ended with the report of a failed POST
C28_Witness ==
    /\ op = "add"
    /\ pc = "done"
    /\ outcome = "failure"
    /\ Len(http) > 0
    /\ LastRequest.method = "POST"
    /\ LastRequest.target = "collection"

----------------------------------------------------------------------------
(* Properties of the PUT of update *)

\* the step sends the PUT of update
PutStep ==
    /\ Len(http') = Len(http) + 1
    /\ http'[Len(http')].method = "PUT"

\* C26: update sends its PUT only right after a fetch of the same
\* invocation that gave an object: the GET by id when an id was given, the
\* lookup by natural key otherwise.  The PUT is addressed to the id of the
\* fetched object, its payload has no id, and its attributes are what
\* process_attributes makes of the fetched attributes and the edits, so
\* that every key no edit names holds its fetched value.
C26_PutAfterFetch ==
    [][PutStep =>
        /\ Len(http) > 0
        /\ LastRequest.method = "GET"
        /\ \/ /\ LastRequest.target = "object"
              /\ LastRequest.by = "update"
              /\ LastRequest.id \notin {NoneV, Missing}
           \/ /\ LastRequest.by = "get_single_object"
              /\ LastRequest.id \in {NoneV, Missing}
        /\ HasId(obj)
        /\ http'[Len(http')].target = "object"
        /\ http'[Len(http')].id = IdOf(obj)
        /\ "id" \notin DOMAIN payload'.fields
        /\ payload'.attributes =
              IF HasAttributes(resource_name)
              THEN process_attributes(attrs, edits, action, multi).attrs
              ELSE attrs
        /\ \A k \in Keys \ EditKeys : payload'.attributes[k] = attrs[k]]_vars

\* an update by natural key has put attributes that differ from the
\* fetched ones
C26_Witness ==
    /\ pc = "done"
    /\ outcome = "success"
    /\ LookedUp
    /\ LastRequest.method = "PUT"
    /\ LastRequest.id \in ObjIds
    /\ edits # <<>>
    /\ payload.attributes # attrs
    /\ \E k \in Keys \ EditKeys : attrs[k] # Absent

----------------------------------------------------------------------------
(* Properties of the cache of a Resource *)

\* C22: when ensure has returned, True or False, for networks, devices and
\* interfaces and whatever the server answered, the cache is empty.
C22_CacheEmptyAfterEnsure ==
    call.name = "ensure" => cached = NoObject

\* the lookup of the call was answered, and with no object
FoundNothing ==
    /\ call.answer \notin {NoResponse, HttpError}
    /\ get_result(call.answer).kind = "list"
    /\ Len(get_result(call.answer).items) = 0

\* C23: purge returns True exactly when the lookup found the resource
\* absent or the call deleted it; otherwise, whatever the lookup and the
\* delete did, it returns False with the error in last_error.  It raises
\* nothing and leaves the cache empty.
C23_PurgeReportsWhetherGone ==
    call.name = "purge" =>
        /\ call.result \in {"True", "False"}
        /\ cached = NoObject
        /\ call.result = "True" <=> (FoundNothing \/ call.write = "ok")
        /\ call.result = "False" =>
              call.errors # <<>> /\ last_error = call.errors[Len(call.errors)]

\* the lookup of the payload under its site
FreshLookup == RRequest("GET", rtype, rpayload.site_id, NoneV, rpayload)

\* C24, as stated: item assignment and item deletion leave the cache empty,
\* and the exists() that follows sends a lookup of the changed payload.
C24_ChangeForcesFreshLookup ==
    /\ [][call'.name \in {"setitem", "delitem"} => cached' = NoObject]_vars
    /\ [][call.name \in {"setitem", "delitem"} /\ call'.name = "exists" =>
            call'.requests = <<FreshLookup>>]_vars

\* C24, amended: item assignment and item deletion leave the cache empty,
\* also when the deletion raises KeyError; the exists() that follows is not
\* answered from the cache: it sends a lookup of the changed payload when
\* the payload has a site_id, and when site_id was deleted it sends
\* nothing, logs the KeyError and returns False.
C24_ChangeClearsCache ==
    /\ [][call'.name \in {"setitem", "delitem"} => cached' = NoObject]_vars
    /\ [][call.name \in {"setitem", "delitem"} /\ call'.name = "exists" =>
            IF rpayload.site_id # Missing
            THEN call'.requests = <<FreshLookup>>
            ELSE /\ call'.requests = <<>>
                 /\ call'.errors = <<"KeyError">>
                 /\ last_error' = "KeyError"
                 /\ call'.result = "False"]_vars

\* an item assignment found the cache filled and left it empty
C24_Witness ==
    /\ call.name = "setitem"
    /\ call.had # NoObject
    /\ cached = NoObject

====
